---- MODULE Spec2Model ----
(***************************************************************************)
(* Model of the SafePrompt browser client, src/frontend/js/app.js.         *)
(*                                                                         *)
(* The page is a single-threaded event loop.  Every action below is one    *)
(* run-to-completion turn of that loop: a user event, or the continuation  *)
(* of an async function after an awaited fetch has settled.  Texts are     *)
(* sequences of tokens; the token " " is a whitespace character.           *)
(***************************************************************************)
EXTENDS Integers, Sequences, FiniteSets, TLC

\* Number of analyzePrompt invocations explored in one behaviour.
MaxInv == 2

Invs == 1..MaxInv

\* JavaScript null / undefined: a value that is no text.
Null == <<"<null>">>

\* Values a user can leave in the prompt text area.
PromptValues == { <<>>, <<" ">>, <<"a">>, <<" ", "b">> }

\* Values a user can leave in the clarification input.
ClarificationValues == { <<>>, <<" ">>, <<"x">> }

\* ---------------------------------------------------------------------
\* Fixed texts of the program
\* ---------------------------------------------------------------------
EmptyPromptAlert == <<"Please enter a prompt to analyze">>
ClarifyErrorPrefix == <<"Error during clarification: ">>
AnalyzeErrorPrefix == <<"Error analyzing prompt: ">>
ClarifyFallback == <<"Clarification check failed">>
AnalyzeFallback == <<"Analysis failed">>
DefaultQuestion == <<"Please provide more context for your prompt.">>

\* Messages of errors thrown by the platform rather than by the program.
NetworkErrorMessage == <<"Failed to fetch">>
JsonErrorMessage == <<"Unexpected token">>
TypeErrorMessage == <<"Cannot read properties of undefined">>

\* ---------------------------------------------------------------------
\* Pure helpers
\* ---------------------------------------------------------------------
RECURSIVE TrimStart(_)
TrimStart(s) ==
    IF s # <<>> /\ Head(s) = " " THEN TrimStart(Tail(s)) ELSE s

RECURSIVE TrimEnd(_)
TrimEnd(s) ==
    IF s # <<>> /\ s[Len(s)] = " " THEN TrimEnd(SubSeq(s, 1, Len(s) - 1)) ELSE s

\* A faulty trim that leaves the text as typed.
TrimKeep(s) == s

\* String.prototype.trim
Trim(s) == TrimEnd(TrimStart(s))

\* JavaScript truthiness of a text-or-null value.
Falsy(x) == x = Null \/ x = <<>>

\* A faulty || that keeps a falsy left operand.
OrKeepLeft(a, b) == a

\* JavaScript a || b
Or(a, b) == IF Falsy(a) THEN b ELSE a

\* ---------------------------------------------------------------------
\* What the server (or the network) can answer
\* ---------------------------------------------------------------------
Details == { Null, <<"d">> }

\* kind: "rejected" - fetch rejects; "notok" - response.ok is false;
\*       "badjson"  - response.ok but response.json() rejects;
\*       "ok"       - response.ok and the body parses.
ClarifyOutcomes ==
    { [kind |-> "rejected", detail |-> Null, needs |-> FALSE, question |-> Null],
      [kind |-> "badjson", detail |-> Null, needs |-> FALSE, question |-> Null] }
    \cup { [kind |-> "notok", detail |-> d, needs |-> FALSE, question |-> Null] : d \in Details }
    \cup { [kind |-> "ok", detail |-> Null, needs |-> FALSE, question |-> Null] }
    \cup { [kind |-> "ok", detail |-> Null, needs |-> TRUE, question |-> q] :
             q \in { Null, <<>>, <<"q">> } }

\* Bodies of an OK /analyze response.  missing names the fields the body
\* does not carry (reading them yields undefined).
Verdicts ==
    { [risk_level |-> <<"High">>, category |-> <<"Prompt Injection">>,
       reasons |-> << <<"r1">>, <<"r2">> >>, suspicious_phrases |-> << <<"ph">> >>,
       safe_version |-> <<"s">>, missing |-> {}],
      [risk_level |-> <<"Low">>, category |-> <<"Benign">>,
       reasons |-> << <<"r3">> >>, suspicious_phrases |-> << >>,
       safe_version |-> Null, missing |-> {}],
      [risk_level |-> <<"Medium">>, category |-> <<"Other">>,
       reasons |-> << >>, suspicious_phrases |-> << >>,
       safe_version |-> <<"s">>, missing |-> {"reasons"}],
      [risk_level |-> <<"High">>, category |-> <<"Data Exfiltration">>,
       reasons |-> << <<"r1">> >>, suspicious_phrases |-> << >>,
       safe_version |-> Null, missing |-> {"suspicious_phrases"}] }

NoVerdict ==
    [risk_level |-> Null, category |-> Null, reasons |-> << >>,
     suspicious_phrases |-> << >>, safe_version |-> Null, missing |-> {}]

AnalyzeOutcomes ==
    { [kind |-> "rejected", detail |-> Null, data |-> NoVerdict],
      [kind |-> "badjson", detail |-> Null, data |-> NoVerdict] }
    \cup { [kind |-> "notok", detail |-> d, data |-> NoVerdict] : d \in Details }
    \cup { [kind |-> "ok", detail |-> Null, data |-> v] : v \in Verdicts }

\* ---------------------------------------------------------------------
\* State
\* ---------------------------------------------------------------------
VARIABLES
    promptInput,            \* value of #promptInput
    clarificationInput,     \* value of #clarificationInput
    clarificationSection,   \* style.display of #clarificationSection
    clarificationQuestion,  \* textContent of #clarificationQuestion
    resultsSection,         \* style.display of #resultsSection
    loading,                \* style.display of .loading
    riskBadge,              \* #riskBadge: text, class, and the invocation that wrote it
    categoryBadge,          \* #categoryBadge
    reasonsList,            \* #reasonsList
    suspiciousPhrases,      \* #suspiciousPhrases
    inv,                    \* the analyzePrompt invocations: position and locals
    n,                      \* number of analyzePrompt invocations that got past the prompt check
    sent,                   \* the requests issued in the last turn, in order
    alerted,                \* the alerts raised in the last turn, in order
    settled,                \* the fetch that settled in the last turn, if any
    asked,                  \* prompt of the /clarify whose question was shown last
    displayed,              \* body of the response displayResults showed last
    round,                  \* per prompt: how far its clarification round has got
    baseline,               \* the last invocation that returned, if it ran alone
    typedSince,             \* the answer field was edited after the last question was shown
    core                    \* the analysis pipeline behind /analyze (used by CoreSpec only)

dom == <<promptInput, clarificationInput, clarificationSection, clarificationQuestion,
         resultsSection, loading>>
resultEls == <<riskBadge, categoryBadge, reasonsList, suspiciousPhrases, displayed>>
io == <<sent, alerted, settled>>
client == <<dom, resultEls, inv, n, io, asked, round, baseline, typedSince>>
vars == <<client, core>>

NoClarifyOutcome == [kind |-> "none", detail |-> Null, needs |-> FALSE, question |-> Null]
NoAnalyzeOutcome == [kind |-> "none", detail |-> Null, data |-> NoVerdict]

NoSettled ==
    [inv |-> 0, ep |-> "none", clarify |-> NoClarifyOutcome, analyze |-> NoAnalyzeOutcome]

\* The part of the page the user sees besides the verdict itself.
Ui ==
    [loading |-> loading, results |-> resultsSection,
     clarification |-> clarificationSection, question |-> clarificationQuestion,
     answer |-> clarificationInput]

NoUi ==
    [loading |-> "none", results |-> "none", clarification |-> "none",
     question |-> <<>>, answer |-> <<>>]

NoBaseline ==
    [valid |-> FALSE, prompt |-> <<>>, path |-> "none",
     clarify |-> NoClarifyOutcome, analyze |-> NoAnalyzeOutcome, ui |-> NoUi,
     second |-> FALSE]

\* pc: "idle" not yet invoked; "clarify" awaiting fetch(/clarify) in
\* callClarifyApi; "analyze" awaiting fetch(/analyze) in callAnalyzeApi;
\* "done" returned.  prompt and clarification are the locals of analyzePrompt.
\* viaClarify: callAnalyzeApi was called from callClarifyApi, and then
\* clarifyOutcome is the response callClarifyApi got.  alone: no other
\* invocation and no edit of the answer has happened since this one started
\* with nothing in flight.  repeat: alone, and started right after baseline
\* returned, with the same prompt.  showed: the invocation has returned from
\* a displayResults that did not throw (its prompt is then kept on record).
NoInv ==
    [pc |-> "idle", prompt |-> <<>>, clarification |-> <<>>, viaClarify |-> FALSE,
     clarifyOutcome |-> NoClarifyOutcome, alone |-> FALSE, repeat |-> FALSE,
     showed |-> FALSE]

DoneInv == [NoInv EXCEPT !.pc = "done"]

\* The prompts a request can carry.
Prompts == { Trim(v) : v \in PromptValues } \ { <<>> }

\* The pipeline when no call is modelled.
CoreIdle == [pc |-> "idle"]

\* The page as loaded: inputs empty, the loading indicator and both sections
\* not displayed (analyzePrompt tests the section's style.display against
\* 'none'), nothing rendered, no invocation started.
ClientInit ==
    /\ promptInput = <<>>
    /\ clarificationInput = <<>>
    /\ clarificationSection = "none"
    /\ clarificationQuestion = <<>>
    /\ resultsSection = "none"
    /\ loading = "none"
    /\ riskBadge = [text |-> <<>>, class |-> <<>>, from |-> 0]
    /\ categoryBadge = [text |-> <<>>, class |-> <<>>, from |-> 0]
    /\ reasonsList = [items |-> << >>, from |-> 0]
    /\ suspiciousPhrases = [items |-> << >>, class |-> <<>>, from |-> 0]
    /\ displayed = NoVerdict
    /\ inv = [i \in Invs |-> NoInv]
    /\ n = 0
    /\ sent = << >>
    /\ alerted = << >>
    /\ settled = NoSettled
    /\ asked = Null
    /\ round = [p \in Prompts |-> "new"]
    /\ baseline = NoBaseline
    /\ typedSince = FALSE

Init == ClientInit /\ core = CoreIdle

\* ---------------------------------------------------------------------
\* Functions of the program
\* ---------------------------------------------------------------------
InFlight == { i \in Invs : inv[i].pc \in {"clarify", "analyze"} }

Request(ep, prompt, clarification, i) ==
    [ep |-> ep, prompt |-> prompt, clarification |-> clarification, inv |-> i]

Alert(prefix, msg, i) == [prefix |-> prefix, msg |-> msg, inv |-> i]

\* A faulty body that sends the clarification as it is.
AnalyzeBodyRaw(prompt, clarification) ==
    [prompt |-> prompt, clarification |-> clarification]

\* JSON body of the /analyze request (callAnalyzeApi).
AnalyzeBody(prompt, clarification) ==
    [prompt |-> prompt, clarification |-> Or(clarification, Null)]

\* A faulty client that sends /clarify twice.
ClarifyFetchTwice(prompt, i) ==
    << Request("clarify", prompt, Null, i), Request("clarify", prompt, Null, i) >>

\* The requests callClarifyApi issues before it first suspends.
ClarifyFetch(prompt, i) == << Request("clarify", prompt, Null, i) >>

\* The requests callAnalyzeApi issues before it first suspends.
AnalyzeFetch(prompt, clarification, i) ==
    LET body == AnalyzeBody(prompt, clarification)
    IN  << Request("analyze", body.prompt, body.clarification, i) >>

\* A faulty message that reports the fallback whatever went wrong.
ErrorMessageFallback(kind, detail, fallback) == fallback

\* error.message in the catch block of callClarifyApi / callAnalyzeApi for a
\* request that did not deliver a body.
ErrorMessage(kind, detail, fallback) ==
    CASE kind = "rejected" -> NetworkErrorMessage
      [] kind = "badjson" -> JsonErrorMessage
      [] OTHER -> Or(detail, fallback)

\* A faulty showClarificationQuestion that adds to the text already shown.
showClarificationQuestionAppend(question) ==
    [question |-> clarificationQuestion \o Or(question, DefaultQuestion),
     input |-> <<>>, display |-> "block"]

\* A faulty showClarificationQuestion that keeps the old answer.
showClarificationQuestionKeep(question) ==
    [question |-> Or(question, DefaultQuestion), input |-> clarificationInput,
     display |-> "block"]

\* showClarificationQuestion: the question text, the answer field and the
\* display of the section after the call.
showClarificationQuestion(question) ==
    [question |-> Or(question, DefaultQuestion), input |-> <<>>, display |-> "block"]

LowerCase(t) ==
    CASE t = <<"High">> -> <<"high">>
      [] t = <<"Low">> -> <<"low">>
      [] t = <<"Medium">> -> <<"medium">>
      [] t = <<"Critical">> -> <<"critical">>
      [] OTHER -> t

CategoryClass(category) ==
    CASE category = <<"Benign">> -> <<"badge bg-success fs-6 p-2">>
      [] category = <<"Prompt Injection">> -> <<"badge bg-danger fs-6 p-2">>
      [] category = <<"Data Exfiltration">> -> <<"badge bg-warning text-dark fs-6 p-2">>
      [] OTHER -> <<"badge bg-secondary fs-6 p-2">>

\* displayResults(data, originalPrompt) run by invocation i: the elements
\* after the call and whether it threw.  originalPrompt is not used.
displayResults(data, i) ==
    LET noReasons == "reasons" \in data.missing
        noPhrases == "suspicious_phrases" \in data.missing
    IN  [riskBadge |-> [text |-> data.risk_level,
                        class |-> <<"badge risk-badge risk-">> \o LowerCase(data.risk_level),
                        from |-> i],
         categoryBadge |-> [text |-> data.category, class |-> CategoryClass(data.category),
                            from |-> i],
         reasonsList |-> [items |-> IF noReasons THEN << >> ELSE data.reasons, from |-> i],
         suspiciousPhrases |->
             IF noReasons \/ noPhrases THEN suspiciousPhrases
             ELSE [items |-> data.suspicious_phrases,
                   class |-> IF Len(data.suspicious_phrases) = 0
                             THEN <<"alert alert-success">> ELSE <<"alert alert-warning">>,
                   from |-> i],
         resultsSection |-> IF noReasons \/ noPhrases THEN resultsSection ELSE "block",
         threw |-> noReasons \/ noPhrases]

\* ---------------------------------------------------------------------
\* Bookkeeping of what has happened
\* ---------------------------------------------------------------------
\* The clarification round of a prompt is "new" until a /clarify is sent for
\* it, then "open" until an /analyze carrying a clarification is sent for it,
\* then "closed".
RoundStep(r, rq) ==
    CASE rq.ep = "clarify" /\ r[rq.prompt] = "new" -> [r EXCEPT ![rq.prompt] = "open"]
      [] rq.ep = "analyze" /\ rq.clarification # Null /\ r[rq.prompt] = "open" ->
             [r EXCEPT ![rq.prompt] = "closed"]
      [] OTHER -> r

RECURSIVE RoundAfter(_, _)
RoundAfter(r, rqs) ==
    IF rqs = << >> THEN r ELSE RoundAfter(RoundStep(r, Head(rqs)), Tail(rqs))

ClearFlags(f) == [i \in Invs |-> [f[i] EXCEPT !.alone = FALSE, !.repeat = FALSE]]

Alone == InFlight = {}
Repeat(prompt) == Alone /\ baseline.valid /\ baseline.prompt = prompt

\* baseline after invocation i has returned on the given path, with the
\* responses c and a.  second: i repeated the submission of the old baseline
\* and the server answered it the same way.
Returned(i, path, c, a) ==
    IF inv[i].alone
    THEN [valid |-> TRUE, prompt |-> inv[i].prompt, path |-> path,
          clarify |-> c, analyze |-> a, ui |-> Ui',
          second |-> (inv[i].repeat /\ c = baseline.clarify /\ a = baseline.analyze)]
    ELSE NoBaseline

\* ---------------------------------------------------------------------
\* User events
\* ---------------------------------------------------------------------
\* The user edits the prompt text area.
EditPrompt ==
    \E v \in PromptValues \ {promptInput} :
        /\ promptInput' = v
        /\ sent' = << >> /\ alerted' = << >> /\ settled' = NoSettled
        /\ UNCHANGED <<clarificationInput, clarificationSection, clarificationQuestion,
                       resultsSection, loading, resultEls, inv, n, asked, typedSince, core,
                       round, baseline>>

\* The user edits the answer field, which is part of the clarification
\* section and can be reached only while that section is displayed.
EditClarification ==
    \E v \in ClarificationValues \ {clarificationInput} :
        /\ clarificationSection # "none"
        /\ clarificationInput' = v
        /\ sent' = << >> /\ alerted' = << >> /\ settled' = NoSettled
        /\ inv' = ClearFlags(inv)
        /\ baseline' = NoBaseline
        /\ typedSince' = TRUE
        /\ UNCHANGED <<promptInput, clarificationSection, clarificationQuestion,
                       resultsSection, loading, resultEls, n, asked, round, core>>

\* ---------------------------------------------------------------------
\* analyzePrompt, up to its first await
\* ---------------------------------------------------------------------
\* analyzePrompt with an empty prompt: alert and return.  The invocation
\* leaves nothing behind, so it is not numbered.
AnalyzePromptInvalid ==
    LET prompt == Trim(promptInput)
    IN  /\ Falsy(prompt)
        /\ alerted' = << Alert(<<>>, EmptyPromptAlert, 0) >>
        /\ sent' = << >> /\ settled' = NoSettled
        /\ inv' = ClearFlags(inv)
        /\ baseline' = NoBaseline
        /\ UNCHANGED <<dom, resultEls, n, asked, typedSince, core, round>>

\* analyzePrompt with an answer entered in the displayed clarification
\* section: callAnalyzeApi(prompt, clarification) up to its fetch.
AnalyzePromptWithClarification ==
    LET i == n + 1
        prompt == Trim(promptInput)
        clarification == Trim(clarificationInput)
    IN  /\ n < MaxInv
        /\ ~Falsy(prompt)
        /\ clarificationSection # "none" /\ ~Falsy(clarification)
        /\ n' = i
        /\ loading' = "block"
        /\ resultsSection' = "none"
        /\ sent' = AnalyzeFetch(prompt, clarification, i)
        /\ alerted' = << >> /\ settled' = NoSettled
        /\ round' = RoundAfter(round, sent')
        /\ inv' = [ClearFlags(inv) EXCEPT ![i] =
                     [NoInv EXCEPT !.pc = "analyze", !.prompt = prompt,
                                   !.clarification = clarification,
                                   !.alone = Alone, !.repeat = Repeat(prompt)]]
        /\ baseline' = IF Repeat(prompt) THEN baseline ELSE NoBaseline
        /\ UNCHANGED <<promptInput, clarificationInput, clarificationSection,
                       clarificationQuestion, resultEls, asked, typedSince, core>>

\* analyzePrompt otherwise: callClarifyApi(prompt) up to its fetch.
AnalyzePromptClarify ==
    LET i == n + 1
        prompt == Trim(promptInput)
        clarification == Trim(clarificationInput)
    IN  /\ n < MaxInv
        /\ ~Falsy(prompt)
        /\ ~(clarificationSection # "none" /\ ~Falsy(clarification))
        /\ n' = i
        /\ loading' = "block"
        /\ resultsSection' = "none"
        /\ clarificationSection' = "none"
        /\ sent' = ClarifyFetch(prompt, i)
        /\ alerted' = << >> /\ settled' = NoSettled
        /\ round' = RoundAfter(round, sent')
        /\ inv' = [ClearFlags(inv) EXCEPT ![i] =
                     [NoInv EXCEPT !.pc = "clarify", !.prompt = prompt,
                                   !.clarification = clarification,
                                   !.alone = Alone, !.repeat = Repeat(prompt)]]
        /\ baseline' = IF Repeat(prompt) THEN baseline ELSE NoBaseline
        /\ UNCHANGED <<promptInput, clarificationInput, clarificationQuestion,
                       resultEls, asked, typedSince, core>>

\* ---------------------------------------------------------------------
\* callClarifyApi after fetch(/clarify) has settled
\* ---------------------------------------------------------------------
\* The body says a question is needed: show it and return.
ClarifyAsks(i, o) ==
    LET q == showClarificationQuestion(o.question)
    IN  /\ o.kind = "ok" /\ o.needs
        /\ clarificationQuestion' = q.question
        /\ clarificationInput' = q.input
        /\ clarificationSection' = q.display
        /\ loading' = "none"
        /\ asked' = inv[i].prompt
        /\ typedSince' = FALSE
        /\ sent' = << >> /\ alerted' = << >>
        /\ UNCHANGED <<promptInput, resultsSection, resultEls, n, round, core>>
        /\ baseline' = Returned(i, "clarify", o, NoAnalyzeOutcome)
        /\ inv' = [inv EXCEPT ![i] = DoneInv]

\* The body says no question is needed: callAnalyzeApi(prompt, "") up to its fetch.
ClarifyProceeds(i, o) ==
    /\ o.kind = "ok" /\ ~o.needs
    /\ loading' = "block"
    /\ resultsSection' = "none"
    /\ sent' = AnalyzeFetch(inv[i].prompt, <<>>, i)
    /\ alerted' = << >>
    /\ round' = RoundAfter(round, sent')
    /\ inv' = [inv EXCEPT ![i] =
                 [inv[i] EXCEPT !.pc = "analyze", !.clarifyOutcome = o,
                                !.viaClarify = TRUE]]
    /\ UNCHANGED <<promptInput, clarificationInput, clarificationSection,
                   clarificationQuestion, resultEls, n, asked, typedSince, core, baseline>>

\* A faulty callClarifyApi without its finally block.
ClarifyFailsKeepLoading(i, o) ==
    /\ o.kind # "ok"
    /\ alerted' = << Alert(ClarifyErrorPrefix,
                           ErrorMessage(o.kind, o.detail, ClarifyFallback), i) >>
    /\ sent' = << >>
    /\ UNCHANGED <<promptInput, clarificationInput, clarificationSection,
                   clarificationQuestion, resultsSection, loading, resultEls, n, asked, typedSince, core,
                   round>>
    /\ baseline' = Returned(i, "clarify", o, NoAnalyzeOutcome)
    /\ inv' = [inv EXCEPT ![i] = DoneInv]

\* fetch rejected, the status is not OK, or the body does not parse: alert and return.
ClarifyFails(i, o) ==
    /\ o.kind # "ok"
    /\ alerted' = << Alert(ClarifyErrorPrefix,
                           ErrorMessage(o.kind, o.detail, ClarifyFallback), i) >>
    /\ sent' = << >>
    /\ loading' = "none"
    /\ UNCHANGED <<promptInput, clarificationInput, clarificationSection,
                   clarificationQuestion, resultsSection, resultEls, n, asked, typedSince, core,
                   round>>
    /\ baseline' = Returned(i, "clarify", o, NoAnalyzeOutcome)
    /\ inv' = [inv EXCEPT ![i] = DoneInv]

ClarifyResponse ==
    \E i \in Invs : \E o \in ClarifyOutcomes :
        /\ inv[i].pc = "clarify"
        /\ settled' = [inv |-> i, ep |-> "clarify", clarify |-> o,
                       analyze |-> NoAnalyzeOutcome]
        /\ \/ ClarifyAsks(i, o)
           \/ ClarifyProceeds(i, o)
           \/ ClarifyFails(i, o)

\* ---------------------------------------------------------------------
\* callAnalyzeApi after fetch(/analyze) has settled; when it was called from
\* callClarifyApi, the finally block of callClarifyApi runs in the same turn.
\* ---------------------------------------------------------------------
PathOf(i) == IF inv[i].viaClarify THEN "clarify" ELSE "direct"

\* The body parses: displayResults, which may throw part-way.
AnalyzeDisplays(i, o) ==
    LET d == displayResults(o.data, i)
    IN  /\ o.kind = "ok"
        /\ riskBadge' = d.riskBadge
        /\ categoryBadge' = d.categoryBadge
        /\ reasonsList' = d.reasonsList
        /\ suspiciousPhrases' = d.suspiciousPhrases
        /\ resultsSection' = d.resultsSection
        /\ displayed' = IF d.threw THEN displayed ELSE o.data
        /\ alerted' = IF d.threw
                      THEN << Alert(AnalyzeErrorPrefix, TypeErrorMessage, i) >>
                      ELSE << >>
        /\ sent' = << >>
        /\ loading' = "none"
        /\ UNCHANGED <<promptInput, clarificationInput, clarificationSection,
                       clarificationQuestion, n, asked, typedSince, core, round>>
        /\ baseline' = Returned(i, PathOf(i), inv[i].clarifyOutcome, o)
        /\ inv' = [inv EXCEPT ![i] =
                     IF d.threw THEN DoneInv
                     ELSE [DoneInv EXCEPT !.showed = TRUE, !.prompt = inv[i].prompt]]

\* fetch rejected, the status is not OK, or the body does not parse: alert and return.
AnalyzeFails(i, o) ==
    /\ o.kind # "ok"
    /\ alerted' = << Alert(AnalyzeErrorPrefix,
                           ErrorMessage(o.kind, o.detail, AnalyzeFallback), i) >>
    /\ sent' = << >>
    /\ loading' = "none"
    /\ UNCHANGED <<promptInput, clarificationInput, clarificationSection,
                   clarificationQuestion, resultsSection, resultEls, n, asked, typedSince, core,
                   round>>
    /\ baseline' = Returned(i, PathOf(i), inv[i].clarifyOutcome, o)
    /\ inv' = [inv EXCEPT ![i] = DoneInv]

AnalyzeResponse ==
    \E i \in Invs : \E o \in AnalyzeOutcomes :
        /\ inv[i].pc = "analyze"
        /\ settled' = [inv |-> i, ep |-> "analyze", clarify |-> NoClarifyOutcome,
                       analyze |-> o]
        /\ \/ AnalyzeDisplays(i, o)
           \/ AnalyzeFails(i, o)

Next ==
    \/ EditPrompt
    \/ EditClarification
    \/ AnalyzePromptInvalid
    \/ AnalyzePromptWithClarification
    \/ AnalyzePromptClarify
    \/ ClarifyResponse
    \/ AnalyzeResponse

Spec == Init /\ [][Next]_vars

\* Every request that was issued settles in the end.
FairSpec == Spec /\ WF_vars(ClarifyResponse) /\ WF_vars(AnalyzeResponse)

\* ---------------------------------------------------------------------
\* The analysis pipeline behind POST /analyze (spec sections 3, 4 and 7).
\* Its code is not part of the client; it is modelled as the specification
\* describes it.  Confidence is in percent.
\* ---------------------------------------------------------------------
Categories ==
    { <<"Benign">>, <<"Prompt Injection">>, <<"Data Exfiltration">>, <<"Jailbreak">>,
      <<"Other">> }

Levels == << <<"Low">>, <<"Medium">>, <<"High">>, <<"Critical">> >>

Rank(level) == CHOOSE k \in 1..Len(Levels) : Levels[k] = level

\* Rule families of the Heuristic Detector, in rule-definition order.
Rules == << "system_prompt_extraction", "role_override", "encoding_obfuscation" >>

HighSeverityRules == { "system_prompt_extraction" }

RuleReason(rule) == << "matched " >> \o << rule >>

\* The spans a match of the rule reports in the prompt under analysis.
RuleSpans(rule) ==
    CASE rule = "system_prompt_extraction" -> { <<"reveal your system prompt">> }
      [] rule = "role_override" ->
             { <<"ignore previous instructions">>, <<"reveal your system prompt">> }
      [] OTHER -> {}

\* HeuristicVerdict of scan(prompt), for a prompt that matches the given rules.
Heuristic(matched) ==
    [any |-> matched # {},
     high |-> matched \cap HighSeverityRules # {},
     reasons |-> SelectSeq([k \in 1..Len(Rules) |-> RuleReason(Rules[k])],
                           LAMBDA t : \E rule \in matched : t = RuleReason(rule)),
     spans |-> UNION { RuleSpans(rule) : rule \in matched }]

HeuristicVerdicts == { Heuristic(m) : m \in SUBSET { Rules[k] : k \in 1..Len(Rules) } }

\* What the remote reasoning capability can return to assess().
RemoteCategories == Categories \cup { <<"Unknown">> }
Confidences == { -10, 0, 49, 50, 79, 80, 120 }

SemanticResponses ==
    { [status |-> "failed", category |-> Null, confidence |-> 0, rationale |-> << >>,
       rewrite |-> Null],
      [status |-> "malformed", category |-> Null, confidence |-> 0, rationale |-> << >>,
       rewrite |-> Null] }
    \cup { [status |-> "ok", category |-> c, confidence |-> k,
            rationale |-> << <<"rationale">> >>, rewrite |-> w] :
             c \in RemoteCategories, k \in Confidences, w \in { Null, <<"rewritten">> } }

Clamp(k) == IF k < 0 THEN 0 ELSE IF k > 100 THEN 100 ELSE k

\* assess(): the validated SemanticVerdict of a successful call.
Validated(resp) ==
    [resp EXCEPT !.category = IF @ \in Categories THEN @ ELSE <<"Other">>,
                 !.confidence = Clamp(@)]

Unavailable(sem) == sem.status # "ok"

UnavailableReason == <<"semantic assessment unavailable">>

\* Fixed table of 4.4 step 2: level derived from the semantic verdict alone.
SemanticLevel(sem) ==
    CASE sem.category = <<"Benign">> -> <<"Low">>
      [] sem.confidence >= 80 ->
             IF sem.category = <<"Other">> THEN <<"High">> ELSE <<"Critical">>
      [] sem.confidence >= 50 -> <<"Medium">>
      [] OTHER -> <<"Low">>

Bump(level) == Levels[IF Rank(level) < Len(Levels) THEN Rank(level) + 1 ELSE Rank(level)]

AtLeast(level, floor) == IF Rank(level) < Rank(floor) THEN floor ELSE level

\* A faulty arbiter that lets the semantic level stand.
MergeLevelNoFloor(h, sem) ==
    IF Unavailable(sem) THEN <<"Low">> ELSE SemanticLevel(sem)

\* risk_level of merge(heuristic, semantic); with the semantic verdict
\* unavailable the level comes from the heuristic signal alone.
MergeLevel(h, sem) ==
    LET base == IF Unavailable(sem) THEN <<"Low">> ELSE SemanticLevel(sem)
    IN  IF h.high THEN AtLeast(base, <<"High">>)
        ELSE IF h.any THEN Bump(base)
        ELSE base

\* A faulty arbiter that takes the semantic category as it is.
MergeCategoriesSemantic(h, sem) ==
    IF Unavailable(sem) THEN { <<"Benign">> } ELSE { sem.category }

\* The categories merge may assign.  Benign needs both signals to agree; the
\* specification leaves open which other category is assigned when the
\* semantic verdict says Benign or is unavailable and the heuristics matched.
MergeCategories(h, sem) ==
    IF Unavailable(sem)
    THEN (IF h.any THEN Categories \ { <<"Benign">> } ELSE { <<"Other">> })
    ELSE IF sem.category # <<"Benign">> THEN { sem.category }
    ELSE IF h.any THEN Categories \ { <<"Benign">> }
    ELSE { <<"Benign">> }

\* A faulty arbiter that forgets to note the degradation.
MergeReasonsSilent(h, sem) ==
    h.reasons \o (IF Unavailable(sem) THEN << >> ELSE sem.rationale)

\* Reasons: heuristic reasons in rule order, then the semantic rationale, or
\* the note that the semantic assessment was unavailable.
MergeReasons(h, sem) ==
    h.reasons \o (IF Unavailable(sem) THEN << UnavailableReason >> ELSE sem.rationale)

\* Safe version: the semantic rewrite, else the prompt itself at Low, else withheld.
MergeSafeVersion(level, sem, prompt) ==
    IF ~Unavailable(sem) /\ sem.rewrite # Null THEN sem.rewrite
    ELSE IF level = <<"Low">> THEN prompt
    ELSE Null

CorePrompt == <<"the prompt">>

\* The Verdicts merge(h, sem) may return for CorePrompt.
Merge(h, sem) ==
    { [risk_level |-> MergeLevel(h, sem), category |-> c,
       reasons |-> MergeReasons(h, sem), suspicious_phrases |-> h.spans,
       safe_version |-> MergeSafeVersion(MergeLevel(h, sem), sem, CorePrompt)] :
          c \in MergeCategories(h, sem) }

NoCoreVerdict ==
    [risk_level |-> Null, category |-> Null, reasons |-> << >>,
     suspicious_phrases |-> {}, safe_version |-> Null]

\* One analyze call: the heuristic verdict of its prompt, and what the remote
\* capability will answer.
CoreInit ==
    /\ ClientInit
    /\ core \in { [pc |-> "ready", heuristic |-> h, remote |-> resp, semantic |-> resp,
                   calls |-> 0, verdict |-> NoCoreVerdict] :
                      h \in HeuristicVerdicts, resp \in SemanticResponses }

\* analyze calls the Semantic Assessor once; a result that came back is validated.
CoreAssess ==
    /\ core.pc = "ready"
    /\ core' = [core EXCEPT !.pc = "assessed", !.calls = @ + 1,
                            !.semantic = IF Unavailable(core.remote) THEN core.remote
                                         ELSE Validated(core.remote)]
    /\ UNCHANGED client

\* The Verdict Arbiter merges the two signals and analyze returns the Verdict.
CoreMerge ==
    /\ core.pc = "assessed"
    /\ \E v \in Merge(core.heuristic, core.semantic) :
           core' = [core EXCEPT !.pc = "returned", !.verdict = v]
    /\ UNCHANGED client

CoreNext == CoreAssess \/ CoreMerge

CoreSpec == CoreInit /\ [][CoreNext]_vars

\* ---------------------------------------------------------------------
\* Properties
\* ---------------------------------------------------------------------
Range(f) == { f[k] : k \in 1..Len(f) }

IsBlank(t) == \A k \in 1..Len(t) : t[k] = " "

AsksNow == settled.ep = "clarify" /\ settled.clarify.kind = "ok" /\ settled.clarify.needs

ProceedsNow == settled.ep = "clarify" /\ settled.clarify.kind = "ok" /\ ~settled.clarify.needs

\* C1: when /clarify answers OK with needs_clarification = true, the turn that
\* handles the answer issues no /analyze request, ends the invocation, leaves
\* the results section hidden and makes the clarification section visible.
C1_ShortCircuit ==
    AsksNow =>
        /\ \A r \in Range(sent) : r.ep # "analyze"
        /\ inv[settled.inv].pc = "done"
        /\ resultsSection = "none"
        /\ clarificationSection = "block"

\* C2: when /clarify answers OK with needs_clarification = false, the same turn
\* issues exactly one /analyze request, carrying the prompt of the invocation
\* (which is the prompt its /clarify request carried) and a null clarification;
\* no request ever carries an empty text as its clarification.
C2_Proceed ==
    /\ ProceedsNow =>
           /\ sent = << Request("analyze", inv[settled.inv].prompt, Null, settled.inv) >>
           /\ inv[settled.inv].pc = "analyze"
    /\ \A r \in Range(sent) :
           /\ r.clarification # <<>>
           /\ r.ep = "clarify" =>
                  inv[r.inv].pc = "clarify" /\ inv[r.inv].prompt = r.prompt

\* C2 witness: the /analyze request goes out with the submitted prompt while the
\* text area holds another prompt.
C2_Witness ==
    /\ ProceedsNow
    /\ Len(sent) = 1
    /\ sent[1].prompt = <<"a">>
    /\ Trim(promptInput) = <<"b">>

\* C3: every /analyze request with a non-null clarification carries the prompt
\* of the /clarify request whose question is being answered.
C3_OriginalPrompt ==
    \A r \in Range(sent) :
        (r.ep = "analyze" /\ r.clarification # Null) => r.prompt = asked

\* C4 as stated: for a prompt, no second /clarify request is issued between
\* the first /clarify request and the first /analyze request that carries a
\* clarification (stated for submissions made while nothing is in flight).
C4_OncePerPrompt ==
    [][InFlight = {} =>
           \A r \in Range(sent') : r.ep = "clarify" => round[r.prompt] # "open"]_vars

\* C4 amended: a turn issues at most one /clarify request, an invocation issues
\* it only when it starts, and a question is shown only by the invocation that
\* is waiting for its /clarify response, which then returns; so each invocation
\* issues at most one /clarify request and shows at most one question.  A
\* submission with a non-blank prompt and no answer entered in the displayed
\* clarification section issues a /clarify request, also for a prompt whose
\* question is already shown.
C4_OncePerInvocation ==
    [][/\ Cardinality({ k \in 1..Len(sent') : sent'[k].ep = "clarify" }) <= 1
       /\ \A r \in Range(sent') :
              r.ep = "clarify" => inv[r.inv].pc = "idle" /\ inv'[r.inv].pc = "clarify"
       /\ (clarificationQuestion' # clarificationQuestion
           \/ (clarificationSection = "none" /\ clarificationSection' # "none")) =>
              /\ settled'.ep = "clarify"
              /\ inv[settled'.inv].pc = "clarify"
              /\ inv'[settled'.inv].pc = "done"
       /\ (n' # n /\ (clarificationSection = "none" \/ IsBlank(clarificationInput))) =>
              Len(sent') = 1 /\ sent'[1].ep = "clarify"
      ]_vars

\* C4 witness: the second invocation sends /clarify for the prompt whose
\* question the first invocation has shown and which has not been answered.
C4_Witness ==
    /\ n = 2
    /\ Len(sent) = 1
    /\ sent[1] = Request("clarify", asked, Null, 2)
    /\ round[asked] = "open"

\* C5: a submission with an empty or blank prompt raises the "enter a prompt"
\* alert, issues no request and leaves the loading indicator, the results
\* section and the clarification section as they were; and no invocation gets
\* past the prompt check with a blank prompt.
C5_InvalidInput ==
    [][/\ (alerted' # << >> /\ alerted'[1].msg = EmptyPromptAlert) =>
              /\ IsBlank(promptInput)
              /\ Len(alerted') = 1
              /\ sent' = << >>
              /\ UNCHANGED <<loading, resultsSection, clarificationSection, n>>
       /\ n' # n => ~IsBlank(promptInput)
       /\ \A r \in Range(sent') : ~IsBlank(r.prompt)
      ]_vars

\* C5 witness: a blank prompt was rejected while another invocation was in
\* flight, and the loading indicator is still shown.
C5_Witness ==
    /\ alerted = << Alert(<<>>, EmptyPromptAlert, 0) >>
    /\ promptInput = <<" ">>
    /\ loading = "block"
    /\ InFlight # {}

\* C6: when /clarify fails (fetch rejected, status not OK, or unreadable
\* body), the same turn goes on to /analyze for that prompt.
C6_FailOpen ==
    (settled.ep = "clarify" /\ settled.clarify.kind # "ok") =>
        /\ Len(sent) = 1
        /\ sent[1].ep = "analyze"
        /\ sent[1].inv = settled.inv

\* C7: when no request is in flight any more, the last two invocations have
\* each displayed a verdict, for different prompts, and a verdict is on
\* display, then it is the verdict of the invocation submitted last, in
\* whatever order the responses arrived.
C7_LatestWins ==
    (/\ InFlight = {} /\ n > 1
     /\ inv[n].showed /\ inv[n - 1].showed /\ inv[n].prompt # inv[n - 1].prompt
     /\ resultsSection = "block") =>
        /\ riskBadge.from = n
        /\ categoryBadge.from = n
        /\ reasonsList.from = n
        /\ suspiciousPhrases.from = n

FailedNow(ep) ==
    /\ settled.ep = ep
    /\ IF ep = "clarify" THEN settled.clarify.kind \in {"rejected", "notok"}
                         ELSE settled.analyze.kind \in {"rejected", "notok"}

DetailNow == IF settled.ep = "clarify" THEN settled.clarify.detail ELSE settled.analyze.detail

KindNow == IF settled.ep = "clarify" THEN settled.clarify.kind ELSE settled.analyze.kind

\* C8 as stated: a failed /clarify or /analyze request raises exactly one
\* alert, "Error during clarification: " resp. "Error analyzing prompt: "
\* followed by the response's detail when there is one and by the fixed
\* fallback otherwise.
C8_DetailOrFallback ==
    /\ FailedNow("clarify") =>
           alerted = << Alert(ClarifyErrorPrefix,
                              IF Falsy(DetailNow) THEN ClarifyFallback ELSE DetailNow,
                              settled.inv) >>
    /\ FailedNow("analyze") =>
           alerted = << Alert(AnalyzeErrorPrefix,
                              IF Falsy(DetailNow) THEN AnalyzeFallback ELSE DetailNow,
                              settled.inv) >>

\* The message the amended C8 expects.
C8_Message(fallback) ==
    IF KindNow = "rejected" THEN NetworkErrorMessage
    ELSE IF Falsy(DetailNow) THEN fallback ELSE DetailNow

\* C8 amended: a failed /clarify or /analyze request raises exactly one alert,
\* with the prefix of the call that issued it (an /analyze issued from inside
\* callClarifyApi is reported as an analysis error only); the message is the
\* response's detail when the status is not OK and a detail is present, the
\* fixed fallback when the status is not OK and there is no detail, and the
\* message of the rejection when fetch was rejected.  The turn issues no
\* request, ends the invocation and changes nothing in the results.
C8_FailureSignalled ==
    [][(FailedNow("clarify")' \/ FailedNow("analyze")') =>
           /\ alerted' = << Alert(IF settled'.ep = "clarify" THEN ClarifyErrorPrefix
                                                             ELSE AnalyzeErrorPrefix,
                                  IF settled'.ep = "clarify" THEN C8_Message(ClarifyFallback)'
                                                             ELSE C8_Message(AnalyzeFallback)',
                                  settled'.inv) >>
           /\ sent' = << >>
           /\ inv'[settled'.inv].pc = "done"
           /\ UNCHANGED <<resultEls, resultsSection>>
      ]_vars

\* C8 witness: an /analyze issued from inside callClarifyApi failed with a
\* detail, and one analysis alert carrying the detail was raised.
C8_Witness ==
    /\ FailedNow("analyze")
    /\ settled.analyze.detail = <<"d">>
    /\ baseline.valid /\ baseline.path = "clarify"
    /\ alerted = << Alert(AnalyzeErrorPrefix, <<"d">>, settled.inv) >>

\* C9: an invocation that repeats the submission of the invocation that
\* returned just before it (same prompt, nothing else in flight, answer field
\* not edited) takes the same route, and when the server answers it as it
\* answered the first, it leaves loading indicator, results section,
\* clarification section, question text and answer field as the first left them.
C9_Idempotent ==
    [][\A i \in Invs :
           (inv[i].repeat /\ inv[i].pc \in {"clarify", "analyze"} /\ inv'[i].pc = "done") =>
               /\ baseline'.valid
               /\ baseline'.prompt = baseline.prompt
               /\ baseline'.path = baseline.path
               /\ baseline'.second => baseline'.ui = baseline.ui
      ]_vars

\* C9 witness: the repeated submission was asked the same question again.
C9_Witness ==
    /\ baseline.valid /\ baseline.second
    /\ baseline.path = "clarify"
    /\ baseline.clarify.needs
    /\ baseline.ui.clarification = "block"

\* The texts the results section shows.
ShownTexts ==
    {riskBadge.text, categoryBadge.text}
        \cup Range(reasonsList.items) \cup Range(suspiciousPhrases.items)

\* C10: when the displayed /analyze response contains a safe version, the
\* results show that safe version together with the risk assessment.
C10_SafeVersionShown ==
    (resultsSection = "block" /\ displayed.safe_version # Null) =>
        /\ displayed.risk_level = riskBadge.text
        /\ displayed.safe_version \in ShownTexts

\* C14: whenever the results section is displayed, risk badge, category
\* badge, reasons and suspicious phrases were all written by one invocation
\* and show the body of one response that displayResults rendered to the end.
C14_OneResponse ==
    resultsSection = "block" =>
        /\ categoryBadge.from = riskBadge.from
        /\ reasonsList.from = riskBadge.from
        /\ suspiciousPhrases.from = riskBadge.from
        /\ displayed.missing = {}
        /\ riskBadge.text = displayed.risk_level
        /\ categoryBadge.text = displayed.category
        /\ reasonsList.items = displayed.reasons
        /\ suspiciousPhrases.items = displayed.suspicious_phrases

\* C15: the loading indicator is displayed in every state in which a
\* /clarify or /analyze request is in flight.
C15_LoadingWhileInFlight ==
    InFlight # {} => loading = "block"

\* C17: the clarification section is hidden once an answer has been sent to
\* /analyze, and it is never displayed together with a verdict.
C17_SectionOnlyWhileOutstanding ==
    /\ (\E r \in Range(sent) : r.ep = "analyze" /\ r.clarification # Null) =>
           clarificationSection = "none"
    /\ ~(clarificationSection # "none" /\ resultsSection = "block")

\* C16: when every issued request settles, no invocation waits for a response
\* for ever (an invocation never goes back to waiting, so from some point on
\* it has either returned or was never made), and whenever no request is in
\* flight the loading indicator is hidden.
C16_Completes ==
    /\ \A i \in Invs : <>[](inv[i].pc \notin {"clarify", "analyze"})
    /\ [](InFlight = {} => loading = "none")

\* C16 witness: an invocation has returned from a rendering failure, nothing
\* is in flight and the loading indicator is hidden.
C16_Witness ==
    /\ settled.ep = "analyze"
    /\ alerted = << Alert(AnalyzeErrorPrefix, TypeErrorMessage, settled.inv) >>
    /\ inv[settled.inv].pc = "done"
    /\ InFlight = {}
    /\ loading = "none"

\* C18: right after a question has been shown, the answer field is empty and
\* the question text is the server's question, or the fixed default when that
\* is null or empty, and so never empty; and a non-null clarification sent to
\* /analyze was typed after the question shown last.
C18_FreshAnswer ==
    /\ AsksNow =>
           /\ clarificationInput = <<>>
           /\ ~typedSince
           /\ clarificationQuestion # <<>>
           /\ clarificationQuestion =
                  (IF settled.clarify.question \in {Null, <<>>}
                   THEN DefaultQuestion ELSE settled.clarify.question)
    /\ \A r \in Range(sent) :
           (r.ep = "analyze" /\ r.clarification # Null) => typedSince

\* C18 witness: an answer typed under the default question is sent to /analyze.
C18_Witness ==
    /\ Len(sent) = 1
    /\ sent[1].ep = "analyze"
    /\ sent[1].clarification = <<"x">>
    /\ clarificationQuestion = DefaultQuestion
    /\ typedSince

\* ---------------------------------------------------------------------
\* Properties of the analysis pipeline (checked under CoreSpec)
\* ---------------------------------------------------------------------
CoreReturned == core.pc = "returned"

HighOrCritical == { <<"High">>, <<"Critical">> }

\* C11 (heuristic floor): whenever the Heuristic Detector matched a
\* high-severity rule, the returned Verdict has risk_level High or Critical and
\* a category other than Benign, whatever the Semantic Assessor returned
\* (Benign at any confidence included) and also when the semantic call failed.
C11_HeuristicFloor ==
    (CoreReturned /\ core.heuristic.high) =>
        /\ core.verdict.risk_level \in HighOrCritical
        /\ core.verdict.category \in Categories \ { <<"Benign">> }

C11_Witness ==
    /\ CoreReturned
    /\ core.heuristic.high
    /\ core.remote.status = "ok"
    /\ core.remote.category = <<"Benign">>
    /\ core.remote.confidence = 120
    /\ core.verdict.risk_level = <<"High">>

\* C12 (Benign invariant): every returned Verdict with category Benign has
\* risk_level Low and no suspicious phrases, and Benign is assigned only when
\* there are zero heuristic matches and the semantic category is Benign; with
\* zero matches and a semantic Benign the Verdict is Benign/Low.
C12_BenignInvariant ==
    CoreReturned =>
        /\ core.verdict.category = <<"Benign">> =>
               /\ core.verdict.risk_level = <<"Low">>
               /\ core.verdict.suspicious_phrases = {}
               /\ core.heuristic.reasons = << >>
               /\ core.remote.status = "ok"
               /\ core.remote.category = <<"Benign">>
        /\ (/\ core.heuristic.reasons = << >>
            /\ core.remote.status = "ok"
            /\ core.remote.category = <<"Benign">>) =>
               /\ core.verdict.category = <<"Benign">>
               /\ core.verdict.risk_level = <<"Low">>
               /\ core.verdict.suspicious_phrases = {}

C12_Witness ==
    /\ CoreReturned
    /\ core.verdict.category = <<"Benign">>
    /\ core.verdict.risk_level = <<"Low">>
    /\ core.remote.confidence = 80
    /\ core.calls = 1

\* C13 (degradation): when the Semantic Assessor fails or returns a malformed
\* result, analyze still returns a fully populated Verdict built from the
\* heuristic signal alone, whose reasons are the heuristic reasons followed by
\* the note that the semantic assessment was unavailable, and the semantic
\* call is made exactly once.
C13_Degradation ==
    /\ core.pc # "idle" => core.calls <= 1
    /\ (CoreReturned /\ core.remote.status \in { "failed", "malformed" }) =>
           /\ core.calls = 1
           /\ \E k \in 1..Len(Levels) : core.verdict.risk_level = Levels[k]
           /\ core.verdict.category \in Categories
           /\ core.verdict.reasons = core.heuristic.reasons \o << UnavailableReason >>
           /\ core.verdict.suspicious_phrases = core.heuristic.spans
           /\ core.verdict.risk_level = <<"Low">> <=> core.heuristic.reasons = << >>
           /\ core.verdict.risk_level \in HighOrCritical <=> core.heuristic.high

C13_Witness ==
    /\ CoreReturned
    /\ core.remote.status = "malformed"
    /\ core.heuristic.high
    /\ Len(core.verdict.reasons) = 3
    /\ core.verdict.reasons[3] = UnavailableReason
    /\ core.verdict.safe_version = Null

====
